---- MODULE Spec2Model ----
(***************************************************************************)
(* State machine of the image-augmentation upload component.               *)
(*                                                                         *)
(* The repository holds two variants of the component App:                 *)
(*   "multi"  : src/src/App.tsx       (a list of files, one label each)    *)
(*   "single" : src/unnamed/part_000  (one file, one label)                *)
(* Init mounts one of them; every action belongs to one variant.           *)
(*                                                                         *)
(* Strings that the code inspects character by character (class names,     *)
(* the text of the number input, the drag payload, num_images) are         *)
(* sequences of one-character strings.  Messages that the code only        *)
(* stores and shows are TLA+ strings.                                      *)
(***************************************************************************)
EXTENDS Integers, Sequences, FiniteSets, TLC

\* ------------------------------------------------------------------ bounds
\* Files the dropzone accepts over a whole run of Spec.
MaxFiles == 2
\* Requests posted over a whole run.
MaxRequests == 2
\* Files the dropzone accepts over a whole run of SpecAppendRemove.
MaxAppended == 6
\* Longest collection SpecMove starts from.
MaxMoveLen == 4
\* Longest collection SpecHandler starts from.
MaxHandlerLen == 3

VARIABLES
    variant,          \* which component is mounted: "multi" or "single"
    mounted,          \* FALSE once a render has thrown and React unmounted the tree
    files,            \* multi:  useState<Array<{file, className}>>([])
    file,             \* single: useState<File | null>(null)
    className,        \* single: useState("object")
    numImages,        \* useState(10)
    isLoading,        \* useState(false)
    error,            \* useState<string | null>(null)
    downloadUrl,      \* useState<string | null>(null)
    activeDragIndex,  \* multi:  useState<number | null>(null)
    dragging,         \* a drag-and-drop gesture is in progress
    dataTransfer,     \* the 'index' item of the gesture's DataTransfer
    requests,         \* axios.post calls awaiting their outcome
    objectUrls,       \* URLs made by createObjectURL for responses, not revoked
    nextFile,         \* identity of the next File object the dropzone hands over
    nextRequest,      \* identity of the next request / response blob
    removes           \* number of removeFile calls so far

vars == <<variant, mounted, files, file, className, numImages, isLoading, error,
          downloadUrl, activeDragIndex, dragging, dataTransfer, requests,
          objectUrls, nextFile, nextRequest, removes>>

\* ------------------------------------------------------------ JS values
\* null of a File / of an object URL / of activeDragIndex; NaN of a number.
\* File and URL identities start at 1, indices at 0, and no modelled input
\* parses to a negative number, so the encodings clash with no real value.
NullFile == 0
NullUrl == 0
NullIndex == -1
NaN == -1
\* null of the error message.
NullError == "null"
\* undefined of the File state of part_000 (acceptedFiles[0] of an empty array).
UndefinedFile == -2
\* undefined as an array element (the result of destructuring an empty splice).
Undefined == [undefined |-> TRUE]

ErrNoFiles == "Please select at least one image file"
ErrNoClassName == "Please provide a class name for each image"
ErrProcessing == "Error processing images. Please try again."
ErrNoFileSingle == "Please select an image file"
ErrProcessingSingle == "Error processing image. Please try again."

Min(a, b) == IF a < b THEN a ELSE b

\* -------------------------------------------------------------- strings
Whitespace == {" "}
DigitChars == <<"0", "1", "2", "3", "4", "5", "6", "7", "8", "9">>
IsDigit(c) == \E d \in 1..10 : DigitChars[d] = c
DigitValue(c) == (CHOOSE d \in 1..10 : DigitChars[d] = c) - 1

\* String.prototype.trim: strip leading, then trailing whitespace.
RECURSIVE trimStart(_)
trimStart(s) ==
    IF s # <<>> /\ Head(s) \in Whitespace THEN trimStart(Tail(s)) ELSE s

RECURSIVE trimEnd(_)
trimEnd(s) ==
    IF s # <<>> /\ s[Len(s)] \in Whitespace
    THEN trimEnd(SubSeq(s, 1, Len(s) - 1))
    ELSE s

trim(s) == trimEnd(trimStart(s))

\* Number.prototype.toString (radix 10) of an integer or NaN.
RECURSIVE toStringNat(_)
toStringNat(n) ==
    IF n < 10 THEN <<DigitChars[n + 1]>>
    ELSE toStringNat(n \div 10) \o <<DigitChars[(n % 10) + 1]>>

toString(n) == IF n = NaN THEN <<"N", "a", "N">> ELSE toStringNat(n)

\* The longest prefix of s made of digits.
RECURSIVE digitPrefix(_)
digitPrefix(s) ==
    IF s # <<>> /\ IsDigit(Head(s)) THEN <<Head(s)>> \o digitPrefix(Tail(s)) ELSE <<>>

RECURSIVE digitsValue(_)
digitsValue(s) ==
    IF s = <<>> THEN 0
    ELSE 10 * digitsValue(SubSeq(s, 1, Len(s) - 1)) + DigitValue(s[Len(s)])

\* parseInt(s): skip leading whitespace, read the leading digits, ignore the
\* rest; NaN when there is no digit to read.
parseInt(s) ==
    LET d == digitPrefix(trimStart(s))
    IN  IF d = <<>> THEN NaN ELSE digitsValue(d)

\* Number(s): the empty (or blank) string is 0, a digit string its value,
\* anything else NaN.
Number(s) ==
    LET t == trim(s)
    IN  IF t = <<>> THEN 0
        ELSE IF digitPrefix(t) = t THEN digitsValue(t)
        ELSE NaN

\* ------------------------------------------------------------ inputs
\* What a user types into a class-name field in a run of Spec: nothing, a
\* blank, a name.
Labels == { <<>>, <<" ">>, <<"c">> }
\* e.target.value of the number input after an edit.
NumberInputs == { <<"5">>, <<>>, <<"1", "0", "1">> }
\* How many files the dropzone accepts in one drop.
BatchSizes == 0..2
\* What the class-name field of part_000 holds: its default, or nothing.
DefaultClassName == <<"o", "b", "j", "e", "c", "t">>
SingleLabels == { DefaultClassName, <<>> }

\* ------------------------------------------------------------- arrays
\* Arrays are sequences; a JS index i is position i + 1.
Indices(arr) == 0 .. (Len(arr) - 1)
At(arr, i) == arr[i + 1]

\* The start position Array.prototype.splice works from: NaN counts as 0,
\* a start beyond the end is clamped to the length.
spliceStart(arr, start) == IF start = NaN THEN 0 ELSE Min(start, Len(arr))

\* arr.splice(start, 1): the elements removed (none when start is the length).
spliceOneRemoved(arr, start) ==
    LET s == spliceStart(arr, start)
    IN  IF s < Len(arr) THEN <<At(arr, s)>> ELSE <<>>

\* arr.splice(start, 1): the array left behind.
spliceOneRest(arr, start) ==
    LET s == spliceStart(arr, start)
    IN  IF s < Len(arr)
        THEN SubSeq(arr, 1, s) \o SubSeq(arr, s + 2, Len(arr))
        ELSE arr

\* arr.splice(start, 0, item): the array after the insertion.
spliceInsert(arr, start, item) ==
    LET s == spliceStart(arr, start)
    IN  SubSeq(arr, 1, s) \o <<item>> \o SubSeq(arr, s + 1, Len(arr))

\* const [removed] = ...: the first element, undefined for an empty array.
firstOrUndefined(arr) == IF arr = <<>> THEN Undefined ELSE Head(arr)

\* Mutant of move: the target is lowered by one when the source lies before
\* it, so the entry lands before the entry it was dropped on.
moveBeforeTarget(prev, sourceIndex, targetIndex) ==
    LET removed == firstOrUndefined(spliceOneRemoved(prev, sourceIndex))
        newFiles == spliceOneRest(prev, sourceIndex)
    IN  spliceInsert(newFiles,
                     IF sourceIndex < targetIndex THEN targetIndex - 1 ELSE targetIndex,
                     removed)

\* The updater handleDrop passes to setFiles.
move(prev, sourceIndex, targetIndex) ==
    LET removed == firstOrUndefined(spliceOneRemoved(prev, sourceIndex))
        newFiles == spliceOneRest(prev, sourceIndex)
    IN  spliceInsert(newFiles, targetIndex, removed)

\* Mutant of withClassName: the value is trimmed before it is stored.
withClassNameTrimmed(prev, index, value) ==
    [p \in 1..Len(prev) |->
        IF p - 1 = index THEN [file |-> prev[p].file, className |-> trim(value)]
        ELSE prev[p]]

\* The updater handleClassNameChange passes to setFiles.
withClassName(prev, index, value) ==
    [p \in 1..Len(prev) |->
        IF p - 1 = index THEN [file |-> prev[p].file, className |-> value]
        ELSE prev[p]]

\* Mutant of filterOut: an index past the end is clamped to the last entry.
filterOutClamped(prev, index) ==
    LET k == Min(index, Len(prev) - 1)
    IN  IF k < 0 THEN prev
        ELSE SubSeq(prev, 1, k) \o SubSeq(prev, k + 2, Len(prev))

\* Mutant of filterOut: everything from index on is dropped.
filterOutFrom(prev, index) == SubSeq(prev, 1, Min(index, Len(prev)))

\* prev.filter((_, i) => i !== index)
RECURSIVE filterOut(_, _)
filterOut(prev, index) ==
    IF prev = <<>> THEN <<>>
    ELSE IF index = 0 THEN Tail(prev)
    ELSE <<Head(prev)>> \o filterOut(Tail(prev), index - 1)

\* Mutant of newEntries: a new entry starts with a blank for a class name.
newEntriesBlankName(first, n) ==
    [k \in 1..n |-> [file |-> first + k - 1, className |-> <<" ">>]]

\* acceptedFiles.map(file => ({file, className: ''})) for n fresh File objects.
newEntries(first, n) ==
    [k \in 1..n |-> [file |-> first + k - 1, className |-> <<>>]]

\* The render maps over files and reads item.file of each element: it throws
\* on an undefined element, and React then unmounts the component.
rendersOk(arr) == \A p \in 1..Len(arr) : arr[p] # Undefined

\* ---------------------------------------------------------- validation
\* Mutant of validate: the class name is tested without trimming.
validateUntrimmed(arr) ==
    IF Len(arr) = 0 THEN "EmptySelection"
    ELSE IF \E p \in 1..Len(arr) : arr[p].className = <<>>
         THEN "MissingClassName"
    ELSE "Ok"

\* The two checks that open handleSubmit, as one result.
validate(arr) ==
    IF Len(arr) = 0 THEN "EmptySelection"
    ELSE IF \E p \in 1..Len(arr) : trim(arr[p].className) = <<>>
         THEN "MissingClassName"
    ELSE "Ok"

\* Mutant of validationMessage: one message for both failures.
validationMessageOne(result) == ErrNoClassName

\* The message each failed check passes to setError.
validationMessage(result) ==
    IF result = "EmptySelection" THEN ErrNoFiles ELSE ErrNoClassName

\* ------------------------------------------------------------- payload
\* FormData is the list of its (name, value) entries in append order.
RECURSIVE appendEntries(_)
appendEntries(arr) ==
    IF arr = <<>> THEN <<>>
    ELSE << <<"files", Head(arr).file>>, <<"class_names", Head(arr).className>> >>
         \o appendEntries(Tail(arr))

\* Mutant of buildFormData: the class names are appended in reverse order.
buildFormDataNamesReversed(arr, n) ==
    [p \in 1..Len(arr) |-> <<"files", arr[p].file>>]
    \o [p \in 1..Len(arr) |-> <<"class_names", arr[Len(arr) + 1 - p].className>>]
    \o << <<"num_images", toString(n)>> >>

\* The FormData handleSubmit posts.
buildFormData(arr, n) == appendEntries(arr) \o << <<"num_images", toString(n)>> >>

\* FormData.getAll(name)
RECURSIVE getAll(_, _)
getAll(formData, name) ==
    IF formData = <<>> THEN <<>>
    ELSE IF Head(formData)[1] = name
         THEN <<Head(formData)[2]>> \o getAll(Tail(formData), name)
    ELSE getAll(Tail(formData), name)

\* -------------------------------------------------- the form's own gates
\* Mutant of submitDisabled: the button forgets the loading flag.
submitDisabledIgnoresLoading == Len(files) = 0

\* disabled of the submit button.
submitDisabled == isLoading \/ Len(files) = 0

\* Constraint validation of the form's enabled controls: every class-name
\* field is `required`, the number field has min 1 and max 100 (an empty
\* number field, which is what a NaN value shows as, is valid).
classInputsValid == \A p \in 1..Len(files) : files[p].className # <<>>
numberInputValid == numImages = NaN \/ (1 <= numImages /\ numImages <= 100)
formValid == classInputsValid /\ numberInputValid

\* ===================================================== src/src/App.tsx
onlyMulti == UNCHANGED <<variant, file, className>>
gestureUnchanged == UNCHANGED <<activeDragIndex, dragging, dataTransfer>>
requestUnchanged == UNCHANGED <<isLoading, error, downloadUrl, requests, objectUrls,
                               nextRequest>>

\* User input events reach the page only while no drag-and-drop gesture is
\* in progress (the platform suppresses them during a gesture).
multiInput == variant = "multi" /\ mounted /\ ~dragging

\* useDropzone's onDrop with n accepted files (from the file dialog or a
\* drop of files on the dropzone).
onDrop(n) ==
    /\ multiInput
    /\ files' = files \o newEntries(nextFile, n)
    /\ error' = NullError
    /\ downloadUrl' = NullUrl
    /\ nextFile' = nextFile + n
    /\ onlyMulti /\ gestureUnchanged
    /\ UNCHANGED <<mounted, numImages, isLoading, requests, objectUrls, nextRequest,
                   removes>>

\* onChange of the class-name field of entry index (disabled while loading).
handleClassNameChange(index, value) ==
    /\ multiInput
    /\ ~isLoading
    /\ index \in Indices(files)
    /\ files' = withClassName(files, index, value)
    /\ onlyMulti /\ gestureUnchanged /\ requestUnchanged
    /\ UNCHANGED <<mounted, numImages, nextFile, removes>>

\* onClick of the remove button of entry index.
removeFile(index) ==
    /\ multiInput
    /\ index \in Indices(files)
    /\ files' = filterOut(files, index)
    /\ removes' = removes + 1
    /\ onlyMulti /\ gestureUnchanged /\ requestUnchanged
    /\ UNCHANGED <<mounted, numImages, nextFile>>

\* onChange of the number field (disabled while loading); the same in both
\* variants.
setNumImages(value) ==
    /\ mounted /\ ~dragging
    /\ ~isLoading
    /\ numImages' = parseInt(value)
    /\ onlyMulti /\ gestureUnchanged /\ requestUnchanged
    /\ UNCHANGED <<mounted, files, nextFile, removes>>

\* onDragStart of entry index: the gesture begins and carries the index.
handleDragStart(index) ==
    /\ multiInput
    /\ index \in Indices(files)
    /\ dataTransfer' = toString(index)
    /\ activeDragIndex' = index
    /\ dragging' = TRUE
    /\ onlyMulti /\ requestUnchanged
    /\ UNCHANGED <<mounted, files, numImages, nextFile, removes>>

\* A gesture that began outside the list (a file dragged in from the desktop,
\* a drag begun in another window showing a longer list) comes over the
\* entries: its DataTransfer has no 'index' item, or another list's index.
ForeignIndexData == { <<>>, toString(MaxFiles) }

foreignDragEnter(data) ==
    /\ multiInput
    /\ Len(files) > 0
    /\ dragging' = TRUE
    /\ dataTransfer' = data
    /\ onlyMulti /\ requestUnchanged
    /\ UNCHANGED <<mounted, files, numImages, activeDragIndex, nextFile, removes>>

\* onDragOver of an entry: preventDefault only.
handleDragOver(index) ==
    /\ variant = "multi" /\ mounted /\ dragging
    /\ index \in Indices(files)
    /\ UNCHANGED vars

\* onDrop of entry targetIndex: the gesture ends on that entry.
handleDrop(targetIndex) ==
    /\ variant = "multi" /\ mounted /\ dragging
    /\ targetIndex \in Indices(files)
    /\ LET sourceIndex == Number(dataTransfer)
       IN  IF sourceIndex = targetIndex
           THEN UNCHANGED <<files, activeDragIndex, mounted>>
           ELSE /\ files' = move(files, sourceIndex, targetIndex)
                /\ activeDragIndex' = NullIndex
                /\ mounted' = rendersOk(files')
    /\ dragging' = FALSE
    /\ dataTransfer' = <<>>
    /\ onlyMulti /\ requestUnchanged
    /\ UNCHANGED <<numImages, nextFile, removes>>

\* The gesture ends anywhere else (dropped outside the list, cancelled); the
\* entries have no onDragEnd handler.
dragEnd ==
    /\ variant = "multi" /\ mounted /\ dragging
    /\ dragging' = FALSE
    /\ dataTransfer' = <<>>
    /\ onlyMulti /\ requestUnchanged
    /\ UNCHANGED <<mounted, files, numImages, activeDragIndex, nextFile, removes>>

\* handleSubmit up to the await: the two checks, then the request.
handleSubmit ==
    /\ variant = "multi" /\ mounted
    /\ LET result == validate(files)
       IN  IF result # "Ok"
           THEN /\ error' = validationMessage(result)
                /\ UNCHANGED <<isLoading, downloadUrl, requests, nextRequest>>
           ELSE /\ nextRequest <= MaxRequests
                /\ isLoading' = TRUE
                /\ error' = NullError
                /\ downloadUrl' = NullUrl
                /\ requests' = requests \cup
                       {[id |-> nextRequest,
                         formData |-> buildFormData(files, numImages)]}
                /\ nextRequest' = nextRequest + 1
    /\ onlyMulti /\ gestureUnchanged
    /\ UNCHANGED <<mounted, files, numImages, objectUrls, nextFile, removes>>

\* A click on the submit button (or Enter in a field, which clicks it): a
\* disabled button ignores it, an invalid form blocks it, otherwise the
\* form's submit event runs handleSubmit.
submitClick ==
    /\ multiInput
    /\ IF submitDisabled \/ ~formValid THEN UNCHANGED vars ELSE handleSubmit

\* The promise of axios.post is fulfilled: the rest of the try block, then
\* finally.  The setters do nothing once the component is unmounted.
responseOk(r) ==
    /\ variant = "multi"
    /\ r \in requests
    /\ requests' = requests \ {r}
    /\ objectUrls' = objectUrls \cup {r.id}
    /\ IF mounted
       THEN downloadUrl' = r.id /\ isLoading' = FALSE
       ELSE UNCHANGED <<downloadUrl, isLoading>>
    /\ onlyMulti /\ gestureUnchanged
    /\ UNCHANGED <<mounted, files, numImages, error, nextFile, nextRequest, removes>>

\* Mutant of responseError: a failed request also resets the form.
responseErrorResets(r) ==
    /\ variant = "multi"
    /\ r \in requests
    /\ requests' = requests \ {r}
    /\ IF mounted
       THEN error' = ErrProcessing /\ isLoading' = FALSE
       ELSE UNCHANGED <<error, isLoading>>
    /\ files' = <<>>
    /\ numImages' = 10
    /\ onlyMulti /\ gestureUnchanged
    /\ UNCHANGED <<mounted, downloadUrl, objectUrls, nextFile, nextRequest, removes>>

\* The promise of axios.post is rejected (transport error, status outside
\* 2xx): catch, then finally.
responseError(r) ==
    /\ variant = "multi"
    /\ r \in requests
    /\ requests' = requests \ {r}
    /\ IF mounted
       THEN error' = ErrProcessing /\ isLoading' = FALSE
       ELSE UNCHANGED <<error, isLoading>>
    /\ onlyMulti /\ gestureUnchanged
    /\ UNCHANGED <<mounted, files, numImages, downloadUrl, objectUrls, nextFile,
                   nextRequest, removes>>

\* ================================================== src/unnamed/part_000
onlySingle == UNCHANGED <<variant, mounted, files, removes>> /\ gestureUnchanged

\* !file
noFile == file = NullFile \/ file = UndefinedFile

\* useDropzone's onDrop: maxFiles is 1, so one file is accepted or none is
\* (a drop of several files is rejected whole), and acceptedFiles[0] is
\* undefined for none.
onDropSingle(n) ==
    /\ variant = "single"
    /\ file' = IF n = 0 THEN UndefinedFile ELSE nextFile
    /\ nextFile' = nextFile + n
    /\ error' = NullError
    /\ downloadUrl' = NullUrl
    /\ onlySingle
    /\ UNCHANGED <<className, numImages, isLoading, requests, objectUrls, nextRequest>>

\* onChange of the class-name field (disabled while loading).
setClassName(value) ==
    /\ variant = "single"
    /\ ~isLoading
    /\ className' = value
    /\ onlySingle /\ requestUnchanged
    /\ UNCHANGED <<file, numImages, nextFile>>

singleFormData(f, n, c) ==
    << <<"file", f>>, <<"num_images", toString(n)>>, <<"class_name", c>> >>

\* handleSubmit of part_000 up to the await.
handleSubmitSingle ==
    /\ variant = "single"
    /\ IF noFile
       THEN /\ error' = ErrNoFileSingle
            /\ UNCHANGED <<isLoading, downloadUrl, requests, nextRequest>>
       ELSE /\ nextRequest <= MaxRequests
            /\ isLoading' = TRUE
            /\ error' = NullError
            /\ downloadUrl' = NullUrl
            /\ requests' = requests \cup
                   {[id |-> nextRequest,
                     formData |-> singleFormData(file, numImages, className)]}
            /\ nextRequest' = nextRequest + 1
    /\ onlySingle
    /\ UNCHANGED <<file, className, numImages, objectUrls, nextFile>>

\* Mutant of submitDisabledSingle: the button forgets the loading flag.
submitDisabledSingleIgnoresLoading == noFile

\* disabled of the submit button of part_000.
submitDisabledSingle == isLoading \/ noFile

submitClickSingle ==
    /\ variant = "single"
    /\ IF submitDisabledSingle \/ ~numberInputValid
       THEN UNCHANGED vars
       ELSE handleSubmitSingle

responseOkSingle(r) ==
    /\ variant = "single"
    /\ r \in requests
    /\ requests' = requests \ {r}
    /\ objectUrls' = objectUrls \cup {r.id}
    /\ downloadUrl' = r.id
    /\ isLoading' = FALSE
    /\ onlySingle
    /\ UNCHANGED <<file, className, numImages, error, nextFile, nextRequest>>

responseErrorSingle(r) ==
    /\ variant = "single"
    /\ r \in requests
    /\ requests' = requests \ {r}
    /\ error' = ErrProcessingSingle
    /\ isLoading' = FALSE
    /\ onlySingle
    /\ UNCHANGED <<file, className, numImages, downloadUrl, objectUrls, nextFile,
                   nextRequest>>

\* ========================================================= specifications
\* The state after the first render, with the collection and the number
\* given (the component itself starts from <<>> and 10).
InitWith(v, fs, n) ==
    /\ variant = v
    /\ mounted = TRUE
    /\ files = fs
    /\ file = NullFile
    /\ className = DefaultClassName
    /\ numImages = n
    /\ isLoading = FALSE
    /\ error = NullError
    /\ downloadUrl = NullUrl
    /\ activeDragIndex = NullIndex
    /\ dragging = FALSE
    /\ dataTransfer = <<>>
    /\ requests = {}
    /\ objectUrls = {}
    /\ nextFile = Len(fs) + 1
    /\ nextRequest = 1
    /\ removes = 0

Init == \E v \in {"multi", "single"} : InitWith(v, <<>>, 10)

\* Every event of either variant, as the browser delivers them.
Next ==
    \/ \E n \in BatchSizes : nextFile + n - 1 <= MaxFiles /\ onDrop(n)
    \/ \E i \in Indices(files), v \in Labels : handleClassNameChange(i, v)
    \/ \E i \in Indices(files) : removeFile(i)
    \/ \E v \in NumberInputs : setNumImages(v)
    \/ \E i \in Indices(files) : handleDragStart(i)
    \/ \E d \in ForeignIndexData : foreignDragEnter(d)
    \/ \E i \in Indices(files) : handleDragOver(i)
    \/ \E i \in Indices(files) : handleDrop(i)
    \/ dragEnd
    \/ submitClick
    \/ \E r \in requests : responseOk(r)
    \/ \E r \in requests : responseError(r)
    \/ \E n \in 0..1 : nextFile + n - 1 <= MaxFiles /\ onDropSingle(n)
    \/ \E v \in SingleLabels : setClassName(v)
    \/ submitClickSingle
    \/ \E r \in requests : responseOkSingle(r)
    \/ \E r \in requests : responseErrorSingle(r)

Spec == Init /\ [][Next]_vars

\* ------------------------------------------------- handleSubmit on its own
\* handleSubmit called on collections of every shape, the form's gates left
\* aside: the contract of the handler itself.
HandlerLabels == { <<>>, <<" ">>, <<" ", " ">>, <<"c">>, <<" ", "c", " ">> }
HandlerNumbers == { 10, NaN }
collectionOf(labels) ==
    [p \in 1..Len(labels) |-> [file |-> p, className |-> labels[p]]]
HandlerCollections ==
    { collectionOf(ls) : ls \in UNION { [1..k -> HandlerLabels] : k \in 0..MaxHandlerLen } }

InitHandler ==
    \E fs \in HandlerCollections, n \in HandlerNumbers : InitWith("multi", fs, n)

NextHandler ==
    \/ handleSubmit
    \/ \E r \in requests : responseOk(r)
    \/ \E r \in requests : responseError(r)

SpecHandler == InitHandler /\ [][NextHandler]_vars

\* --------------------------------------------------- reorder, then submit
\* The collection of three labelled entries, or a prefix of it, reordered by
\* drag gestures begun on its entries and submitted.
ScenarioA ==
    << [file |-> 1, className |-> <<"c", "a", "t">>],
       [file |-> 2, className |-> <<"d", "o", "g">>],
       [file |-> 3, className |-> <<"b", "i", "r", "d">>] >>

InitPayload == \E k \in 1..Len(ScenarioA) : InitWith("multi", SubSeq(ScenarioA, 1, k), 10)

NextPayload ==
    \/ \E i \in Indices(files) : handleDragStart(i)
    \/ \E i \in Indices(files) : handleDragOver(i)
    \/ \E i \in Indices(files) : handleDrop(i)
    \/ dragEnd
    \/ \E v \in NumberInputs : setNumImages(v)
    \/ submitClick
    \/ \E r \in requests : responseOk(r)
    \/ \E r \in requests : responseError(r)

SpecPayload == InitPayload /\ [][NextPayload]_vars

\* --------------------------------------------------------- reorder alone
\* Collections of up to MaxMoveLen entries, told apart by file and class
\* name, under drag gestures begun on their entries.
sampleCollection(len) ==
    [k \in 1..len |-> [file |-> k, className |-> <<"c">> \o toString(k)]]

InitMove == \E len \in 1..MaxMoveLen : InitWith("multi", sampleCollection(len), 10)

NextMove ==
    \/ \E i \in Indices(files) : handleDragStart(i)
    \/ \E i \in Indices(files) : handleDragOver(i)
    \/ \E i \in Indices(files) : handleDrop(i)
    \/ dragEnd

SpecMove == InitMove /\ [][NextMove]_vars

\* ----------------------------------------------------- append and remove
InitAppendRemove == InitWith("multi", <<>>, 10)

NextAppendRemove ==
    \/ \E n \in BatchSizes : nextFile + n - 1 <= MaxAppended /\ onDrop(n)
    \/ \E i \in Indices(files) : removeFile(i)

SpecAppendRemove == InitAppendRemove /\ [][NextAppendRemove]_vars

\* ------------------------------------------- handlers called with any index
\* removeFile and handleClassNameChange as functions: the calls a caller other
\* than the rendered buttons and fields could make, with any number for an
\* index.
MaxCalls == 3

CallIndices == -1..MaxMoveLen

\* Neither handler has a throw statement, and filter and map are total: no
\* call raises an error, whatever the index.
indexErrorRaised(prev, index) == FALSE

removeFileCall(index) ==
    /\ multiInput
    /\ removes < MaxCalls
    /\ files' = filterOut(files, index)
    /\ removes' = removes + 1
    /\ onlyMulti /\ gestureUnchanged /\ requestUnchanged
    /\ UNCHANGED <<mounted, numImages, nextFile>>

handleClassNameChangeCall(index, value) ==
    /\ multiInput
    /\ files' = withClassName(files, index, value)
    /\ onlyMulti /\ gestureUnchanged /\ requestUnchanged
    /\ UNCHANGED <<mounted, numImages, nextFile, removes>>

InitIndex == \E len \in 1..MaxMoveLen : InitWith("multi", sampleCollection(len), 10)

NextIndex ==
    \/ \E index \in CallIndices : removeFileCall(index)
    \/ \E index \in CallIndices, value \in Labels : handleClassNameChangeCall(index, value)

SpecIndex == InitIndex /\ [][NextIndex]_vars

\* ================================================================ claims
\* The three parts of the request state.
loading == isLoading
hasError == error # NullError
hasUrl == downloadUrl # NullUrl

\* C1: a submit while a request is in flight is a no-op: the loading flag,
\* the error and the result handle stay as they are and no request is
\* posted, whatever the collection and the number are.
C1_SubmitInFlightNoOp ==
    [][(isLoading /\ (submitClick \/ submitClickSingle))
        => UNCHANGED <<isLoading, error, downloadUrl, requests, nextRequest>>]_vars

\* C1 witness: a request is in flight over a non-empty, valid form, so the
\* loading flag alone keeps the submit button from acting.
C1_Witness ==
    /\ variant = "multi" /\ mounted /\ ~dragging
    /\ isLoading /\ Cardinality(requests) = 1
    /\ Len(files) > 0 /\ formValid /\ validate(files) = "Ok"
    /\ nextRequest <= MaxRequests

\* C2: in every reachable state at most one request is outstanding.
C2_AtMostOneRequest == Cardinality(requests) <= 1

\* C2 witness: a second request is outstanding after the first one ended,
\* with an entry removed in between.
C2_Witness ==
    /\ Cardinality(requests) = 1
    /\ \A r \in requests : r.id = 2
    /\ removes > 0

\* C3: the loading flag, an error message and a result handle are mutually
\* exclusive: never two of them at once.
C3_ExactlyOneRequestState ==
    /\ ~(loading /\ hasError)
    /\ ~(loading /\ hasUrl)
    /\ ~(hasError /\ hasUrl)

\* C7: at most one object URL over response bytes is live (created and not
\* revoked) in any reachable state.
C7_AtMostOneLiveHandle == Cardinality(objectUrls) <= 1

\* C8: an append of n accepted files puts n entries at the end, in the order
\* given, each with the empty class name, leaves the entries already there
\* as they are, and clears the error and the result handle.
C8_AppendEffect ==
    [][\A n \in BatchSizes :
        onDrop(n) =>
            /\ Len(files') = Len(files) + n
            /\ SubSeq(files', 1, Len(files)) = files
            /\ \A k \in 1..n :
                  /\ files'[Len(files) + k].file = nextFile + k - 1
                  /\ files'[Len(files) + k].className = <<>>
            /\ error' = NullError
            /\ downloadUrl' = NullUrl]_vars

\* C8 witness: a file was appended after a request had succeeded: the entry
\* labelled before is intact, the new one has the empty class name, and no
\* error and no result handle are left although an object URL was made.
C8_Witness ==
    /\ variant = "multi" /\ mounted
    /\ Len(files) = 2
    /\ files[1].className = <<"c">> /\ files[2].className = <<>>
    /\ files[1].file < files[2].file
    /\ objectUrls # {} /\ requests = {} /\ ~isLoading
    /\ error = NullError /\ downloadUrl = NullUrl

\* A string of whitespace only (the empty string included).
allWhitespace(str) == \A i \in 1..Len(str) : str[i] \in Whitespace
someBlankName(arr) == \E p \in 1..Len(arr) : allWhitespace(arr[p].className)

\* C4: the payload of a request holds one `files` and one `class_names`
\* field per entry of the collection as it stands at the submit, in
\* collection order and paired by position, and one `num_images` field with
\* the decimal string of numImages.
C4_PayloadMatchesCollection ==
    [][\A r \in requests' \ requests :
        LET fd == r.formData
            num == getAll(fd, "num_images")
        IN  /\ getAll(fd, "files") = [p \in 1..Len(files) |-> files[p].file]
            /\ getAll(fd, "class_names") = [p \in 1..Len(files) |-> files[p].className]
            /\ Len(fd) = 2 * Len(files) + 1
            /\ Len(num) = 1
            /\ IF numImages = NaN THEN num[1] = <<"N", "a", "N">>
               ELSE Number(num[1]) = numImages
            /\ numImages = 5 => num[1] = <<"5">>]_vars

\* C4 witness: the request of scenario A is outstanding: three entries in
\* their original order, class names cat, dog, bird, num_images "5".
C4_Witness ==
    \E r \in requests :
        /\ getAll(r.formData, "files") = <<1, 2, 3>>
        /\ getAll(r.formData, "class_names")
              = << <<"c", "a", "t">>, <<"d", "o", "g">>, <<"b", "i", "r", "d">> >>
        /\ getAll(r.formData, "num_images") = << <<"5">> >>

\* C5: validation fails with EmptySelection exactly for the empty
\* collection, with MissingClassName exactly for a non-empty collection with
\* a class name that is whitespace only, and succeeds otherwise.
C5_ValidateCases ==
    LET result == validate(files)
    IN  /\ result = "EmptySelection" <=> files = <<>>
        /\ result = "MissingClassName" <=> (files # <<>> /\ someBlankName(files))
        /\ result = "Ok" <=> (files # <<>> /\ ~someBlankName(files))

\* C5 witness: handleSubmit has rejected a collection whose class names are
\* all non-empty, one of them blanks only, with NaN for a number.
C5_Witness ==
    /\ error = ErrNoClassName
    /\ numImages = NaN
    /\ Len(files) = 2
    /\ files[1].className = <<" ", "c", " ">>
    /\ files[2].className = <<" ", " ">>
    /\ requests = {} /\ nextRequest = 1

\* C6: a submit outside InFlight that fails validation sets the error to
\* the message of the failed check, leaves the loading flag off and posts
\* no request.
C6_ValidationFailure ==
    [][(handleSubmit /\ ~isLoading /\ (files = <<>> \/ someBlankName(files)))
        => /\ error' = IF files = <<>>
                       THEN "Please select at least one image file"
                       ELSE "Please provide a class name for each image"
           /\ isLoading' = FALSE
           /\ requests' = requests
           /\ nextRequest' = nextRequest]_vars

\* C6 witness: the empty collection was submitted: the message for it is
\* set and no request was ever posted.
C6_Witness ==
    /\ files = <<>>
    /\ error = "Please select at least one image file"
    /\ ~isLoading /\ requests = {} /\ nextRequest = 1

\* The sequence without its element at position p.
without(seq, p) ==
    [q \in 1..(Len(seq) - 1) |-> IF q < p THEN seq[q] ELSE seq[q + 1]]

\* C9: a drop on entry t of a gesture begun on entry s leaves the collection
\* as it is when s = t; otherwise the entry that was at s is at t, the
\* other entries keep their relative order, and the length is the same.
C9_MoveIsSpliceMove ==
    [][\A t \in Indices(files) :
        (handleDrop(t) /\ activeDragIndex \in Indices(files)) =>
            LET s == activeDragIndex
            IN  IF s = t THEN files' = files
                ELSE /\ Len(files') = Len(files)
                     /\ At(files', t) = At(files, s)
                     /\ without(files', t + 1) = without(files, s + 1)]_vars

\* C9 witness: move(0, 2) on [A, B, C, D] has given [B, C, A, D].
C9_Witness ==
    /\ Len(files) = 4
    /\ [p \in 1..4 |-> files[p].file] = <<2, 3, 1, 4>>
    /\ \A p \in 1..4 : files[p] = sampleCollection(4)[files[p].file]
    /\ ~dragging /\ activeDragIndex = NullIndex

\* C10: under appends and removes alone the length is the number of files
\* appended less the number of removes, and the entries left are in the
\* order they were appended in.
C10_LengthAndOrder ==
    /\ Len(files) = (nextFile - 1) - removes
    /\ \A p, q \in 1..Len(files) : p < q => files[p].file < files[q].file

\* C10 witness: four files appended, the first and the third removed.
C10_Witness ==
    /\ nextFile = 5 /\ removes = 2
    /\ [p \in 1..Len(files) |-> files[p].file] = <<2, 4>>


\* C11: a class-name edit of entry i stores the value as typed in that entry
\* alone: its file, the other entries, the length and order, numImages and
\* the request state are as before.
C11_SetClassNameFrame ==
    [][\A i \in Indices(files), v \in Labels :
        handleClassNameChange(i, v) =>
            /\ Len(files') = Len(files)
            /\ At(files', i).className = v
            /\ At(files', i).file = At(files, i).file
            /\ \A j \in Indices(files) : j # i => At(files', j) = At(files, j)
            /\ numImages' = numImages
            /\ UNCHANGED <<isLoading, error, downloadUrl, requests>>]_vars

\* C11 witness: the first entry holds a blank exactly as typed while the
\* second entry keeps the name it was given before.
C11_Witness ==
    /\ variant = "multi" /\ mounted
    /\ Len(files) = 2
    /\ files[1].className = <<" ">> /\ files[2].className = <<"c">>
    /\ files[1].file = 1 /\ files[2].file = 2


\* The files a request was built from.
payloadFiles(r) == { f \in 1..MaxAppended : \E p \in 1..Len(getAll(r.formData, "files")) :
                        getAll(r.formData, "files")[p] = f }

\* An entry of the collection that request r was not built from: it was
\* appended after r was issued.
appendedAfter(r) == \E p \in 1..Len(files) : files[p] # Undefined /\ files[p].file \notin payloadFiles(r)

\* C12: after an append no archive handle is exposed until a submit issued
\* after the append has succeeded; so the response of a request issued
\* before an append exposes no handle.
C12_NoHandleForStaleRequest ==
    [][\A r \in requests :
        (responseOk(r) /\ appendedAfter(r)) => downloadUrl' = NullUrl]_vars


\* C13: whatever the operations were, and whatever source index a drop's
\* payload carried, every position holds an entry (no gap), no entry is
\* there twice, and the length is the number of entries appended minus
\* the number removed.
C13_CollectionWellFormed ==
    variant = "multi" =>
    /\ \A p \in 1..Len(files) : files[p] # Undefined
    /\ \A p, q \in 1..Len(files) : p # q => files[p] # files[q]
    /\ Len(files) = (nextFile - 1) - removes


\* C14: every drop leaves the drag machine idle with the active index
\* cleared, whether the entry was moved or dropped on itself.
C14_DropClearsActiveIndex ==
    [][\A t \in 0..MaxFiles : handleDrop(t) => activeDragIndex' = NullIndex]_vars


C16_FailureKeepsInputs ==
    [][(\/ submitClick /\ validate(files) # "Ok"
        \/ submitClickSingle /\ noFile
        \/ \E r \in requests : responseError(r) \/ responseErrorSingle(r))
       => UNCHANGED <<files, numImages, file, className>>]_vars

\* C16 witness: a request was rejected and the two entries and the number
\* typed before the submit are still there.
C16_Witness ==
    /\ variant = "multi" /\ mounted
    /\ error = ErrProcessing /\ ~isLoading
    /\ Len(files) = 2 /\ files[1].className = <<"c">> /\ files[2].className = <<"c">>
    /\ numImages = 5


\* C17: when the request is rejected, whatever the cause, the request state
\* becomes Failed with the one fixed message of the variant, no handle is
\* exposed, loading is over, and no further request is issued.
C17_RejectionFailsWithFixedMessage ==
    [][\A r \in requests :
        /\ responseError(r) =>
              /\ error' = ErrProcessing /\ ~isLoading' /\ downloadUrl' = NullUrl
              /\ requests' = requests \ {r} /\ nextRequest' = nextRequest
        /\ responseErrorSingle(r) =>
              /\ error' = ErrProcessingSingle /\ ~isLoading' /\ downloadUrl' = NullUrl
              /\ requests' = requests \ {r} /\ nextRequest' = nextRequest]_vars


\* C18: numImages is an integer from 1 to 100 in every reachable state, and
\* so every request carries as num_images the decimal string of such an
\* integer.
C18_NumImagesInRange ==
    /\ numImages \in 1..100
    /\ \A r \in requests :
          \E k \in 1..100 : getAll(r.formData, "num_images") = <<toString(k)>>


\* C19: the request state is InFlight exactly while a request is outstanding:
\* never loading with no request outstanding (the outcome of every request
\* ends the loading), and never a request outstanding with loading false.
C19_LoadingIffOutstanding ==
    /\ isLoading => requests # {}
    /\ requests # {} => isLoading


\* C20: a drop reorders only after a drag begun on an entry of the list; a
\* drop whose payload carries no index leaves the collection as it was.
C20_DropWithoutIndexKeepsOrder ==
    [][\A t \in 0..MaxFiles :
        (handleDrop(t) /\ dataTransfer = <<>>) => files' = files]_vars

====
